---- MODULE Spec2Model ----
(***************************************************************************)
(* Chess Introvert (src/script.js): the board, the click / undo / restart  *)
(* handlers, the delayed aiMove callback, the pseudo-legal move generator  *)
(* and the minimax search, as a state machine.                             *)
(*                                                                         *)
(* A board is the JavaScript array of 8 row arrays: a function from 0..7   *)
(* to rows, a row a function from 0..7 to one-character strings.  "." is   *)
(* the empty cell, upper case is White, lower case is Black.               *)
(***************************************************************************)
EXTENDS Integers, Sequences, FiniteSets, TLC

(***************************************************************************)
(* Bounds of the model (not program constants).                            *)
(***************************************************************************)
\* Longest move history explored; a commit is not taken beyond it.
MaxHist == 4
\* Most aiMove callbacks pending in the timer queue at once.
MaxPending == 2
\* Math.random() is drawn from { k / RandDen : k \in 0..RandDen-1 }.
RandDen == 3
\* The difficulty select's value is drawn from 0..MaxLevel (0: an unknown level).
MaxLevel == 2
\* In the game, the clock of a search is over budget from one of its first
\* MaxTicks readings on.
MaxTicks == 2

\* Pieces put on a board before a direct call of the generator.
MaxGenPieces == 2
\* Pieces put on the empty board before a direct call of the search.
MaxSearchPieces == 3
\* Largest depth of a direct call of the search.
MaxDepth == 3
\* In a direct call of the search the clock is over budget from one of its
\* first MaxClock readings on, or never.
MaxClock == 3
\* The greatest number of moves in the history of the chess.js game of the
\* second front end, and of makeBestMove callbacks pending there.
MaxPlies == 6
MaxTimers == 3

(***************************************************************************)
(* Program constants.                                                      *)
(***************************************************************************)
\* The board is 8x8: inRange(x) is x >= 0 && x < 8.
BoardSize == 8
\* The value standing for JavaScript's Infinity: larger than any material sum.
Infinity == 1000000

Rows == 0..(BoardSize - 1)

WhitePieces == {"P", "N", "B", "R", "Q", "K"}
BlackPieces == {"p", "n", "b", "r", "q", "k"}
Pieces == WhitePieces \cup BlackPieces

\* String.prototype.toUpperCase on the strings the program applies it to:
\* piece letters, "." and (through isOpposite) the side names "w" and "b".
toUpperCase(s) ==
  CASE s = "p" -> "P" [] s = "n" -> "N" [] s = "b" -> "B" [] s = "r" -> "R"
    [] s = "q" -> "Q" [] s = "k" -> "K" [] s = "w" -> "W" [] OTHER -> s

toLowerCase(s) ==
  CASE s = "P" -> "p" [] s = "N" -> "n" [] s = "B" -> "b" [] s = "R" -> "r"
    [] s = "Q" -> "q" [] s = "K" -> "k" [] s = "W" -> "w" [] OTHER -> s

RowOf(str) == [c \in Rows |-> str[c + 1]]

initialBoard ==
  [r \in Rows |->
     RowOf(CASE r = 0 -> <<"r", "n", "b", "q", "k", "b", "n", "r">>
             [] r = 1 -> <<"p", "p", "p", "p", "p", "p", "p", "p">>
             [] r = 6 -> <<"P", "P", "P", "P", "P", "P", "P", "P">>
             [] r = 7 -> <<"R", "N", "B", "Q", "K", "B", "N", "R">>
             [] OTHER -> <<".", ".", ".", ".", ".", ".", ".", ".">>)]

Abs(x) == IF x < 0 THEN -x ELSE x
Sign(x) == IF x < 0 THEN -1 ELSE IF x > 0 THEN 1 ELSE 0
Max(a, b) == IF a > b THEN a ELSE b
Min(a, b) == IF a < b THEN a ELSE b

inRange(x) == x >= 0 /\ x < BoardSize

pieceColor(p) == IF p = toUpperCase(p) THEN "w" ELSE "b"

isOpposite(a, b) == pieceColor(a) # pieceColor(b)

isPieceOwnedBySideAny(piece, side) == piece # "."

isPieceOwnedBySide(piece, side) ==
  IF piece = "." THEN FALSE
  ELSE IF side = "w" THEN piece = toUpperCase(piece)
       ELSE piece = toLowerCase(piece)

Other(side) == IF side = "w" THEN "b" ELSE "w"

Mv(r, c, rr, cc) == [from |-> <<r, c>>, to |-> <<rr, cc>>]

(***************************************************************************)
(* generateMovesForSide: the moves of one origin cell, in the code's       *)
(* order, then the cells in row-major order.                               *)
(***************************************************************************)
\* The test the generator applies to an occupied destination t2 for a piece
\* p: isOpposite(pieceColor(p), t2), the colour name passed where a piece
\* letter is expected.
CanTake(p, t2) == isOpposite(pieceColor(p), t2)

PawnMoves(bs, r, c, p) ==
  LET isWhite == p = toUpperCase(p)
      dir == IF isWhite THEN -1 ELSE 1
      nr == r + dir
      single == IF inRange(nr) /\ bs[nr][c] = "." THEN <<Mv(r, c, nr, c)>> ELSE <<>>
      cap(dc) == IF inRange(nr) /\ inRange(c + dc) /\ bs[nr][c + dc] # "."
                    /\ CanTake(p, bs[nr][c + dc])
                 THEN <<Mv(r, c, nr, c + dc)>> ELSE <<>>
      double == IF (r = 6 /\ isWhite) \/ (r = 1 /\ ~isWhite)
                THEN IF bs[r + dir][c] = "." /\ bs[r + 2 * dir][c] = "."
                     THEN <<Mv(r, c, r + 2 * dir, c)>> ELSE <<>>
                ELSE <<>>
  IN single \o cap(-1) \o cap(1) \o double

KnightDeltas ==
  << <<1, 2>>, <<2, 1>>, <<-1, 2>>, <<-2, 1>>, <<1, -2>>, <<2, -1>>, <<-1, -2>>, <<-2, -1>> >>

BishopDeltas == << <<1, 1>>, <<1, -1>>, <<-1, 1>>, <<-1, -1>> >>
RookDeltas == << <<1, 0>>, <<-1, 0>>, <<0, 1>>, <<0, -1>> >>
QueenDeltas == BishopDeltas \o RookDeltas
KingDeltas ==
  << <<-1, -1>>, <<-1, 0>>, <<-1, 1>>, <<0, -1>>, <<0, 1>>, <<1, -1>>, <<1, 0>>, <<1, 1>> >>

\* One step of the knight's and the king's loops.
StepMove(bs, r, c, p, d) ==
  LET rr == r + d[1]
      cc == c + d[2]
  IN IF ~inRange(rr) \/ ~inRange(cc) THEN <<>>
     ELSE IF bs[rr][cc] = "." \/ CanTake(p, bs[rr][cc]) THEN <<Mv(r, c, rr, cc)>>
     ELSE <<>>

\* The while loop of one sliding direction, from cell (rr, cc) on.
RECURSIVE Ray(_, _, _, _, _, _, _)
Ray(bs, r, c, p, d, rr, cc) ==
  IF ~(inRange(rr) /\ inRange(cc)) THEN <<>>
  ELSE IF bs[rr][cc] = "."
       THEN <<Mv(r, c, rr, cc)>> \o Ray(bs, r, c, p, d, rr + d[1], cc + d[2])
       ELSE IF CanTake(p, bs[rr][cc]) THEN <<Mv(r, c, rr, cc)>> ELSE <<>>

RECURSIVE OverDeltas(_, _, _, _, _, _, _)
OverDeltas(bs, r, c, p, deltas, i, sliding) ==
  IF i > Len(deltas) THEN <<>>
  ELSE (IF sliding
        THEN Ray(bs, r, c, p, deltas[i], r + deltas[i][1], c + deltas[i][2])
        ELSE StepMove(bs, r, c, p, deltas[i]))
       \o OverDeltas(bs, r, c, p, deltas, i + 1, sliding)

CellMoves(bs, r, c, side) ==
  LET p == bs[r][c]
      t == toLowerCase(p)
  IN IF p = "." THEN <<>>
     ELSE IF (side = "w") # (p = toUpperCase(p)) THEN <<>>
     ELSE CASE t = "p" -> PawnMoves(bs, r, c, p)
            [] t = "n" -> OverDeltas(bs, r, c, p, KnightDeltas, 1, FALSE)
            [] t = "b" -> OverDeltas(bs, r, c, p, BishopDeltas, 1, TRUE)
            [] t = "r" -> OverDeltas(bs, r, c, p, RookDeltas, 1, TRUE)
            [] t = "q" -> OverDeltas(bs, r, c, p, QueenDeltas, 1, TRUE)
            [] t = "k" -> OverDeltas(bs, r, c, p, KingDeltas, 1, FALSE)
            [] OTHER -> <<>>

\* The two for loops over the cells lo..hi (cell i is row i \div 8, column
\* i % 8), in row-major order.  The range is split in two so that the
\* nesting of the evaluation grows with the logarithm of its length.
RECURSIVE GenCells(_, _, _, _)
GenCells(bs, side, lo, hi) ==
  IF lo = hi THEN CellMoves(bs, lo \div BoardSize, lo % BoardSize, side)
  ELSE LET mid == (lo + hi) \div 2
       IN GenCells(bs, side, lo, mid) \o GenCells(bs, side, mid + 1, hi)

generateMovesForSide(bs, side) == GenCells(bs, side, 0, BoardSize * BoardSize - 1)

(***************************************************************************)
(* The live game: board, moves, moveList and sideToMove, bundled as a      *)
(* record g so that a handler is an operator from game to game.            *)
(***************************************************************************)
Files == <<"a", "b", "c", "d", "e", "f", "g", "h">>
Ranks == <<"8", "7", "6", "5", "4", "3", "2", "1">>

\* The template string `${piece}${from}-${to}${x}` as its sequence of characters.
notationForMove(fr, fc, tr, tc, piece, target) ==
  <<piece, Files[fc + 1], Ranks[fr + 1], "-", Files[tc + 1], Ranks[tr + 1]>>
    \o (IF target # "." THEN <<"x">> ELSE <<>>)

RECURSIVE PathClearFrom(_, _, _, _, _, _, _)
PathClearFrom(bd, r, c, tr, tc, dr, dc) ==
  IF r = tr /\ c = tc THEN TRUE
  ELSE IF bd[r][c] # "." THEN FALSE
  ELSE PathClearFrom(bd, r + dr, c + dc, tr, tc, dr, dc)

isPathClear(bd, fr, fc, tr, tc) ==
  PathClearFrom(bd, fr + Sign(tr - fr), fc + Sign(tc - fc), tr, tc,
                Sign(tr - fr), Sign(tc - fc))

\* The piece-type branch of makeMoveIfLegal: TRUE when no "return false" is hit.
ShapeOk(bd, fr, fc, tr, tc, piece, target) ==
  LET t == toLowerCase(piece)
      forward == IF piece = "P" THEN -1 ELSE 1
  IN CASE t = "p" ->
            IF fc = tc /\ target = "."
            THEN \/ tr = fr + forward
                 \/ (fr = 6 /\ piece = "P" /\ tr = 4)
                 \/ (fr = 1 /\ piece = "p" /\ tr = 3)
            ELSE Abs(tc - fc) = 1 /\ tr = fr + forward /\ target # "."
       [] t = "n" -> \/ (Abs(tr - fr) = 1 /\ Abs(tc - fc) = 2)
                     \/ (Abs(tr - fr) = 2 /\ Abs(tc - fc) = 1)
       [] t = "b" -> Abs(tr - fr) = Abs(tc - fc) /\ isPathClear(bd, fr, fc, tr, tc)
       [] t = "r" -> ~(tr # fr /\ tc # fc) /\ isPathClear(bd, fr, fc, tr, tc)
       [] t = "q" -> ~(tr # fr /\ tc # fc /\ Abs(tr - fr) # Abs(tc - fc))
                     /\ isPathClear(bd, fr, fc, tr, tc)
       [] t = "k" -> ~(Max(Abs(tr - fr), Abs(tc - fc)) > 1)
       [] OTHER -> TRUE

\* What a call returns: ret is "true", "false", or "fault" when the call
\* throws a TypeError instead of returning; g is the game it leaves.
Outcome(ret, g) == [ret |-> ret, g |-> g]

\* A slip of the commit: the captured piece is not recorded in the history.
CommitMoveDropsCapture(g, fr, fc, tr, tc, piece, target) ==
  LET moveNotation == notationForMove(fr, fc, tr, tc, piece, target)
  IN [board |-> [g.board EXCEPT ![tr][tc] = piece, ![fr][fc] = "."],
      moves |-> Append(g.moves, [from |-> <<fr, fc>>, to |-> <<tr, tc>>, piece |-> piece,
                                 captured |-> ".", notation |-> moveNotation]),
      moveList |-> Append(g.moveList, moveNotation),
      sideToMove |-> Other(g.sideToMove)]

\* A slip of the commit: the origin cell is not cleared.
CommitMoveKeepsOrigin(g, fr, fc, tr, tc, piece, target) ==
  LET moveNotation == notationForMove(fr, fc, tr, tc, piece, target)
  IN [board |-> [g.board EXCEPT ![tr][tc] = piece],
      moves |-> Append(g.moves, [from |-> <<fr, fc>>, to |-> <<tr, tc>>, piece |-> piece,
                                 captured |-> target, notation |-> moveNotation]),
      moveList |-> Append(g.moveList, moveNotation),
      sideToMove |-> Other(g.sideToMove)]

\* Lines 204-213: the move is made on the live board and recorded.
CommitMove(g, fr, fc, tr, tc, piece, target) ==
  LET moveNotation == notationForMove(fr, fc, tr, tc, piece, target)
  IN [board |-> [g.board EXCEPT ![tr][tc] = piece, ![fr][fc] = "."],
      moves |-> Append(g.moves, [from |-> <<fr, fc>>, to |-> <<tr, tc>>, piece |-> piece,
                                 captured |-> target, notation |-> moveNotation]),
      moveList |-> Append(g.moveList, moveNotation),
      sideToMove |-> Other(g.sideToMove)]

\* board[r][c] with r on the board and c off it reads undefined; board[r] with
\* r off the board is undefined and indexing it throws.
makeMoveIfLegal(g, move) ==
  LET fr == move.from[1]
      fc == move.from[2]
      tr == move.to[1]
      tc == move.to[2]
  IN IF ~inRange(fr) THEN Outcome("fault", g)
     ELSE LET piece == IF inRange(fc) THEN g.board[fr][fc] ELSE "undefined"
          IN IF piece = "." THEN Outcome("false", g)
             \* isPieceOwnedBySide(undefined, side): undefined.toUpperCase()
             ELSE IF piece = "undefined" THEN Outcome("fault", g)
             ELSE IF ~isPieceOwnedBySide(piece, g.sideToMove) THEN Outcome("false", g)
             ELSE IF fr = tr /\ fc = tc THEN Outcome("false", g)
             ELSE IF ~inRange(tr) THEN Outcome("fault", g)
             ELSE LET target == IF inRange(tc) THEN g.board[tr][tc] ELSE "undefined"
                  IN \* target !== '.' && target.toUpperCase()
                     IF target = "undefined" THEN Outcome("fault", g)
                     ELSE IF target # "."
                             /\ ((target = toUpperCase(target)) = (piece = toUpperCase(piece)))
                          THEN Outcome("false", g)
                     ELSE IF ~ShapeOk(g.board, fr, fc, tr, tc, piece, target)
                          THEN Outcome("false", g)
                     ELSE Outcome("true", CommitMove(g, fr, fc, tr, tc, piece, target))

DropLast(s) == SubSeq(s, 1, Len(s) - 1)

\* A slip of the undo handler: the captured piece is not put back.
undoNoRestore(g) ==
  IF Len(g.moves) = 0 THEN g
  ELSE LET last == g.moves[Len(g.moves)]
       IN [board |-> [g.board EXCEPT ![last.from[1]][last.from[2]] = last.piece,
                                     ![last.to[1]][last.to[2]] = "."],
           moves |-> DropLast(g.moves),
           moveList |-> DropLast(g.moveList),
           sideToMove |-> Other(g.sideToMove)]

\* A slip of the undo handler: no guard on the empty history.
undoNoGuard(g) ==
  IF Len(g.moves) = 0 THEN [g EXCEPT !.sideToMove = Other(g.sideToMove)]
  ELSE LET last == g.moves[Len(g.moves)]
       IN [board |-> [g.board EXCEPT ![last.from[1]][last.from[2]] = last.piece,
                                     ![last.to[1]][last.to[2]] = last.captured],
           moves |-> DropLast(g.moves),
           moveList |-> DropLast(g.moveList),
           sideToMove |-> Other(g.sideToMove)]

\* A slip of the undo handler: sideToMove is not toggled back.
undoNoToggle(g) ==
  IF Len(g.moves) = 0 THEN g
  ELSE LET last == g.moves[Len(g.moves)]
       IN [board |-> [g.board EXCEPT ![last.from[1]][last.from[2]] = last.piece,
                                     ![last.to[1]][last.to[2]] = last.captured],
           moves |-> DropLast(g.moves),
           moveList |-> DropLast(g.moveList),
           sideToMove |-> g.sideToMove]

\* The undo button's handler on the game.
undoHandler(g) ==
  IF Len(g.moves) = 0 THEN g
  ELSE LET last == g.moves[Len(g.moves)]
       IN [board |-> [g.board EXCEPT ![last.from[1]][last.from[2]] = last.piece,
                                     ![last.to[1]][last.to[2]] = last.captured],
           moves |-> DropLast(g.moves),
           moveList |-> DropLast(g.moveList),
           sideToMove |-> Other(g.sideToMove)]

\* The restart button's handler on the game.
restartHandler(g) ==
  [board |-> initialBoard, moves |-> <<>>, moveList |-> <<>>, sideToMove |-> "w"]

(***************************************************************************)
(* The search.  Boards the search creates live in a heap of rows: a board  *)
(* reference maps 0..7 to row addresses, so that a copy sharing rows with  *)
(* its source is distinguishable from a deep one.  A search state s is     *)
(* [heap, t, fresh, cuts, sorted, lastMake, rootKids, lo, hi]: the rows,   *)
(* the number of performance.now() readings compared with the budget so    *)
(* far, whether every board made so far shared no row with its parent, the *)
(* number of beta <= alpha breaks taken, whether every move list looped    *)
(* over had its captures first, the number of readings made before the     *)
(* latest makeMoveOnBoard call, the number of root children evaluated, and *)
(* the least and greatest depth argument of the minimax calls.  The clock  *)
(* is non-decreasing, so it is given by k: the first reading found over    *)
(* budget is reading number k (k = 0: no reading ever is).                 *)
(***************************************************************************)
Deref(h, b) == [r \in Rows |-> h[b[r]]]

\* A slip of cloneBoard: b.slice(), the rows shared with the source.
cloneBoardShallow(h, b) == [heap |-> h, ref |-> b]

\* b.map(r => r.slice()): eight new rows.
cloneBoard(h, b) ==
  [heap |-> h \o [i \in 1..BoardSize |-> h[b[i - 1]]],
   ref |-> [r \in Rows |-> Len(h) + r + 1]]

\* nb[tr][tc] = nb[fr][fc]; nb[fr][fc] = '.' on the clone cl.
MoveOnClone(cl, move) ==
  [heap |-> [cl.heap EXCEPT ![cl.ref[move.to[1]]][move.to[2]] =
                              cl.heap[cl.ref[move.from[1]]][move.from[2]],
                            ![cl.ref[move.from[1]]][move.from[2]] = "."],
   ref |-> cl.ref]

makeMoveOnBoard(h, b, move) == MoveOnClone(cloneBoard(h, b), move)

PieceValue(t) ==
  CASE t = "p" -> 100 [] t = "n" -> 320 [] t = "b" -> 330 [] t = "r" -> 500
    [] t = "q" -> 900 [] t = "k" -> 20000 [] OTHER -> 0

\* The term one cell adds to the score.
CellScore(p) ==
  IF p = "." THEN 0
  ELSE IF p = toLowerCase(p) THEN -PieceValue(toLowerCase(p))
  ELSE PieceValue(toLowerCase(p))

\* The two for loops over the cells lo..hi, split as in GenCells.
RECURSIVE ScoreCells(_, _, _)
ScoreCells(bs, lo, hi) ==
  IF lo = hi THEN CellScore(bs[lo \div BoardSize][lo % BoardSize])
  ELSE LET mid == (lo + hi) \div 2
       IN ScoreCells(bs, lo, mid) + ScoreCells(bs, mid + 1, hi)

evaluateBoardSimple(bs) == ScoreCells(bs, 0, BoardSize * BoardSize - 1)

\* performance.now() - start > timeLimitMs at reading number t.
OverBudget(k, t) == t >= k /\ k > 0

Tick(s) == [s EXCEPT !.t = s.t + 1]

\* The entry of a minimax call: its clock reading, and the least and the
\* greatest depth argument seen so far.
EnterCall(s, depth) ==
  [s EXCEPT !.t = s.t + 1, !.lo = Min(s.lo, depth), !.hi = Max(s.hi, depth)]

\* A slip of the cut-off test: the comparison turned round.
PruneCutFlipped(alpha, beta) == beta >= alpha

\* if (beta <= alpha) break;
PruneCut(alpha, beta) == beta <= alpha

SharesRow(b, nb) == \E r \in Rows, q \in Rows : b[r] = nb[q]

RECURSIVE minimax(_, _, _, _, _, _, _)

\* The search state in which a child call is entered: the heap with the new
\* board mk, and whether mk shares a row with its parent b.
EnterChild(s, b, mk) ==
  [s EXCEPT !.heap = mk.heap, !.fresh = s.fresh /\ ~SharesRow(b, mk.ref), !.lastMake = s.t]

\* The search state after a child call: the rows of the child board are
\* unreachable once its call has returned and are dropped from the heap
\* (n rows before the call).
LeaveChild(s, n) == [s EXCEPT !.heap = SubSeq(s.heap, 1, n)]

\* A slip of the loop's end: the clock is not read after a child.
MinimaxStepEndNoClock(k, s1, alpha1, beta1, best1) ==
  IF PruneCut(alpha1, beta1)
  THEN [s |-> [s1 EXCEPT !.cuts = @ + 1], alpha |-> alpha1, beta |-> beta1,
        best |-> best1, done |-> TRUE]
  ELSE [s |-> s1, alpha |-> alpha1, beta |-> beta1, best |-> best1, done |-> FALSE]

\* The end of one pass of minimax's for loop: the two break tests.
MinimaxStepEnd(k, s1, alpha1, beta1, best1) ==
  IF PruneCut(alpha1, beta1)
  THEN [s |-> [s1 EXCEPT !.cuts = @ + 1], alpha |-> alpha1, beta |-> beta1,
        best |-> best1, done |-> TRUE]
  ELSE [s |-> Tick(s1), alpha |-> alpha1, beta |-> beta1, best |-> best1,
        done |-> OverBudget(k, s1.t + 1)]

\* One pass of the loop once the child call has returned ev: maxEval / minEval
\* and alpha / beta are updated.
MinimaxStepAfter(L, side, k, child) ==
  MinimaxStepEnd(k, LeaveChild(child.s, Len(L.s.heap)),
                 IF side = "w" THEN Max(L.alpha, child.score) ELSE L.alpha,
                 IF side = "w" THEN L.beta ELSE Min(L.beta, child.score),
                 IF side = "w" THEN Max(L.best, child.score) ELSE Min(L.best, child.score))

MinimaxStepOn(L, b, depth, side, k, mk) ==
  MinimaxStepAfter(L, side, k,
                   minimax(EnterChild(L.s, b, mk), mk.ref, depth - 1, Other(side),
                           L.alpha, L.beta, k))

\* One pass of minimax's for loop, for the move mv.  L is the loop's state:
\* [s, alpha, beta, best, done], done once a break has been taken.
MinimaxStep(L, b, depth, side, k, mv) ==
  MinimaxStepOn(L, b, depth, side, k, makeMoveOnBoard(L.s.heap, b, mv))

\* The for loop over moves[lo..hi], left to right, nothing done after a break.
\* The range is split in two so that the nesting of the evaluation grows with
\* the logarithm of the number of moves.
RECURSIVE MinimaxLoop(_, _, _, _, _, _, _, _)
MinimaxLoop(L, b, depth, side, k, moves, lo, hi) ==
  IF L.done \/ lo > hi THEN L
  ELSE IF lo = hi THEN MinimaxStep(L, b, depth, side, k, moves[lo])
  ELSE MinimaxLoop(MinimaxLoop(L, b, depth, side, k, moves, lo, (lo + hi) \div 2),
                   b, depth, side, k, moves, (lo + hi) \div 2 + 1, hi)

MinimaxReturn(L) == [score |-> L.best, s |-> L.s]

\* The destination of the move is occupied (the sort comparator's test).
IsCapture(bs, mv) == bs[mv.to[1]][mv.to[2]] # "."

\* No move onto an empty cell stands before a move onto an occupied one.
CapturesFirst(bs, moves) ==
  \A i \in 1..Len(moves), j \in 1..Len(moves) :
    (i < j /\ IsCapture(bs, moves[j])) => IsCapture(bs, moves[i])

\* The search state of a loop over moves: whether this list and every list
\* looped over so far had its captures first.
NoteOrder(s, bs, moves) == [s EXCEPT !.sorted = s.sorted /\ CapturesFirst(bs, moves)]

\* minimax from the move list on.
MinimaxOver(s1, bs, b, depth, side, alpha, beta, k, moves) ==
  IF Len(moves) = 0 THEN [score |-> evaluateBoardSimple(bs), s |-> s1]
  ELSE MinimaxReturn(MinimaxLoop([s |-> NoteOrder(s1, bs, moves), alpha |-> alpha, beta |-> beta,
                                  best |-> IF side = "w" THEN -Infinity ELSE Infinity,
                                  done |-> FALSE],
                                 b, depth, side, k, moves, 1, Len(moves)))

\* A slip of the depth test: the search stops one level too late.
MinimaxAtLate(s1, bs, b, depth, side, alpha, beta, k) ==
  IF OverBudget(k, s1.t) THEN [score |-> evaluateBoardSimple(bs), s |-> s1]
  ELSE IF depth = -1 THEN [score |-> evaluateBoardSimple(bs), s |-> s1]
  ELSE MinimaxOver(s1, bs, b, depth, side, alpha, beta, k, generateMovesForSide(bs, side))

\* minimax once the clock has been read (s1) and the board looked up (bs).
MinimaxAt(s1, bs, b, depth, side, alpha, beta, k) ==
  IF OverBudget(k, s1.t) THEN [score |-> evaluateBoardSimple(bs), s |-> s1]
  ELSE IF depth = 0 THEN [score |-> evaluateBoardSimple(bs), s |-> s1]
  ELSE MinimaxOver(s1, bs, b, depth, side, alpha, beta, k, generateMovesForSide(bs, side))

\* minimax(boardState, depth, side, alpha, beta, startTime, timeLimitMs) in
\* the search state s; the result is [score, s].
minimax(s, b, depth, side, alpha, beta, k) ==
  MinimaxAt(EnterCall(s, depth), Deref(s.heap, b), b, depth, side, alpha, beta, k)

\* moves.sort(...) of minimaxRoot: the comparator orders a capture before a
\* non-capture and nothing else; the sort is stable.
SortCapturesFirst(bs, moves) ==
  SelectSeq(moves, LAMBDA mv : IsCapture(bs, mv))
    \o SelectSeq(moves, LAMBDA mv : ~IsCapture(bs, mv))

\* A slip of minimaxRoot's initial best score: the two infinities swapped.
RootStartSwapped(side) == IF side = "w" THEN Infinity ELSE -Infinity

\* let bestScore = side==='w' ? -Infinity : Infinity;
RootStart(side) == IF side = "w" THEN -Infinity ELSE Infinity

\* if (score > bestScore) for White, if (score < bestScore) for Black.
Better(side, score, bestScore) ==
  IF side = "w" THEN score > bestScore ELSE score < bestScore

\* One more root child has been evaluated.
RootKid(s) == [s EXCEPT !.rootKids = s.rootKids + 1]

\* One pass of minimaxRoot's for loop once the child call has returned.
RootStepAfter(L, side, k, mv, child) ==
  [s |-> RootKid(Tick(LeaveChild(child.s, Len(L.s.heap)))),
   bestScore |-> IF Better(side, child.score, L.bestScore) THEN child.score ELSE L.bestScore,
   bestMove |-> IF Better(side, child.score, L.bestScore) THEN <<mv>> ELSE L.bestMove,
   done |-> OverBudget(k, child.s.t + 1)]

RootStepOn(L, b, depth, side, k, mv, mk) ==
  RootStepAfter(L, side, k, mv,
                minimax(EnterChild(L.s, b, mk), mk.ref, depth - 1, Other(side),
                        -Infinity, Infinity, k))

\* One pass of minimaxRoot's for loop.  L is [s, bestScore, bestMove, done];
\* bestMove is <<>> for null and <<mv>> for a move.
RootStep(L, b, depth, side, k, mv) ==
  RootStepOn(L, b, depth, side, k, mv, makeMoveOnBoard(L.s.heap, b, mv))

RECURSIVE RootLoop(_, _, _, _, _, _, _, _)
RootLoop(L, b, depth, side, k, moves, lo, hi) ==
  IF L.done \/ lo > hi THEN L
  ELSE IF lo = hi THEN RootStep(L, b, depth, side, k, moves[lo])
  ELSE RootLoop(RootLoop(L, b, depth, side, k, moves, lo, (lo + hi) \div 2),
                b, depth, side, k, moves, (lo + hi) \div 2 + 1, hi)

RootReturn(L) == [move |-> L.bestMove, s |-> L.s]

\* The search state minimaxRoot starts its loop in.
RootState(h, b, depth, moves) ==
  [heap |-> h, t |-> 0, fresh |-> TRUE, cuts |-> 0,
   sorted |-> CapturesFirst(Deref(h, b), moves), lastMake |-> 0, rootKids |-> 0,
   lo |-> depth, hi |-> 0]

RootOver(h, b, depth, side, k, moves) ==
  RootReturn(RootLoop([s |-> RootState(h, b, depth, moves),
                       bestScore |-> RootStart(side), bestMove |-> <<>>, done |-> FALSE],
                      b, depth, side, k, moves, 1, Len(moves)))

RootSorted(h, bs, b, depth, side, k) ==
  RootOver(h, b, depth, side, k, SortCapturesFirst(bs, generateMovesForSide(bs, side)))

\* minimaxRoot(boardState, depth, side, timeLimitMs) on the heap h, the clock
\* given by k.  The result is [move, s].
minimaxRoot(h, b, depth, side, k) == RootSorted(h, Deref(h, b), b, depth, side, k)

\* The live board as a heap of its eight rows, and back.
LiveHeap(bd) == [i \in 1..BoardSize |-> bd[i - 1]]
LiveRef == [r \in Rows |-> r + 1]

(***************************************************************************)
(* The state of the page.                                                  *)
(*   board, moves, moveList, sideToMove, selectedCell: the script's        *)
(*     variables of those names (selectedCell is <<>> for null);           *)
(*   pending: the aiMove callbacks set by setTimeout and not yet run;      *)
(*   lastOp, lastRet: the handler that ran last and what its call of       *)
(*     makeMoveIfLegal returned ("none" when it made no call);             *)
(*   probe: the arguments and the result of a direct call of the generator *)
(*     or of the search (specifications SpecGen and SpecSearch).           *)
(***************************************************************************)
VARIABLES board, moves, moveList, sideToMove, selectedCell, pending, lastOp, lastRet, probe

vars == <<board, moves, moveList, sideToMove, selectedCell, pending, lastOp, lastRet, probe>>

Game == [board |-> board, moves |-> moves, moveList |-> moveList, sideToMove |-> sideToMove]

SetGame(g) ==
  /\ board' = g.board
  /\ moves' = g.moves
  /\ moveList' = g.moveList
  /\ sideToMove' = g.sideToMove

NoProbe == [kind |-> "none"]

Init ==
  /\ board = initialBoard
  /\ moves = <<>>
  /\ moveList = <<>>
  /\ sideToMove = "w"
  /\ selectedCell = <<>>
  /\ pending = 0
  /\ lastOp = "init"
  /\ lastRet = "none"
  /\ probe = NoProbe

\* The squares the user clicks: g1, f3, f2, f4 (a knight move, a pawn step and
\* double step), e7, e5 (Black's), so that f3 takes on e5.
ClickCells == {<<7, 6>>, <<5, 5>>, <<6, 5>>, <<4, 5>>, <<1, 4>>, <<3, 4>>}

\* A slip of postMoveActions: a callback is set whatever the side to move.
ScheduledAlways(side) == 1

\* postMoveActions: a callback is set when it is Black's turn.
Scheduled(side) == IF side = "b" THEN 1 ELSE 0

\* onSquareClick on the square (r, c).
SquareClick(r, c) ==
  LET piece == board[r][c]
  IN /\ lastOp' = "click"
     /\ probe' = probe
     /\ IF selectedCell # <<>>
        THEN IF selectedCell[1] = r /\ selectedCell[2] = c
             THEN /\ selectedCell' = <<>>
                  /\ lastRet' = "none"
                  /\ UNCHANGED <<board, moves, moveList, sideToMove, pending>>
             ELSE LET out == makeMoveIfLegal(Game, [from |-> selectedCell, to |-> <<r, c>>])
                  IN /\ lastRet' = out.ret
                     /\ SetGame(out.g)
                     /\ IF out.ret = "true"
                        THEN /\ Len(moves) < MaxHist
                             /\ pending + Scheduled(out.g.sideToMove) <= MaxPending
                             /\ selectedCell' = <<>>
                             /\ pending' = pending + Scheduled(out.g.sideToMove)
                        ELSE /\ selectedCell' = IF piece # "." /\ isPieceOwnedBySide(piece, sideToMove)
                                                THEN <<r, c>> ELSE selectedCell
                             /\ pending' = pending
        ELSE /\ selectedCell' = IF piece # "." /\ isPieceOwnedBySide(piece, sideToMove)
                                THEN <<r, c>> ELSE selectedCell
             /\ lastRet' = "none"
             /\ UNCHANGED <<board, moves, moveList, sideToMove, pending>>

\* The undo button.  lastOp tells the undo of an empty history and the undo
\* pressed right after a committed move from the others.
UndoClick ==
  /\ SetGame(undoHandler(Game))
  /\ lastOp' = IF Len(moves) = 0 THEN "undoEmpty"
               ELSE IF lastRet = "true" THEN "undoAfterCommit"
               ELSE "undo"
  /\ lastRet' = "none"
  /\ UNCHANGED <<selectedCell, pending, probe>>

\* The restart button.
RestartClick ==
  /\ SetGame(restartHandler(Game))
  /\ lastOp' = "restart"
  /\ lastRet' = "none"
  /\ UNCHANGED <<selectedCell, pending, probe>>

\* DIFFICULTIES[difficulty] || DIFFICULTIES[2], its depth.
DepthOf(difficulty) ==
  CASE difficulty = 1 -> 1 [] difficulty = 2 -> 2 [] difficulty = 3 -> 3
    [] difficulty = 4 -> 4 [] difficulty = 5 -> 5 [] OTHER -> 2

\* legal[Math.floor(Math.random() * legal.length)] for Math.random() = rnd / RandDen.
RandomIndex(rnd, len) == (rnd * len) \div RandDen

\* What aiMove chooses: <<>> when it returns without a move, else <<mv>>, and
\* the live board as the choice leaves it.
PickRandom(legal, rnd) ==
  IF Len(legal) = 0 THEN <<>> ELSE <<legal[RandomIndex(rnd, Len(legal)) + 1]>>

\* A slip of the beginner branch: the moves of the wrong side are generated.
RandomChoiceWhite(bd, rnd) ==
  [move |-> PickRandom(generateMovesForSide(bd, "w"), rnd), board |-> bd]

RandomChoice(bd, rnd) ==
  [move |-> PickRandom(generateMovesForSide(bd, "b"), rnd), board |-> bd]

ChoiceOf(res) == [move |-> res.move, board |-> Deref(res.s.heap, LiveRef)]

SearchChoice(bd, difficulty, k) ==
  ChoiceOf(minimaxRoot(LiveHeap(bd), LiveRef, DepthOf(difficulty), "b", k))

\* The part of aiMove after the choice: makeMoveIfLegal, postMoveActions.
AiCommit(choice) ==
  IF choice.move = <<>>
  THEN /\ SetGame([Game EXCEPT !.board = choice.board])
       /\ lastRet' = "none"
       /\ pending' = pending - 1
  ELSE LET out == makeMoveIfLegal([Game EXCEPT !.board = choice.board], choice.move[1])
       IN /\ out.ret = "true" => Len(moves) < MaxHist
          /\ SetGame(out.g)
          /\ lastRet' = out.ret
          /\ pending' = pending - 1 + Scheduled(out.g.sideToMove)

\* A pending aiMove callback runs: lastOp is "aiRandom" when the level is 1
\* (the beginner branch) and "ai" when minimaxRoot is called.
AiMoveFire ==
  /\ pending > 0
  /\ UNCHANGED <<selectedCell, probe>>
  /\ \/ /\ lastOp' = "aiRandom"
        /\ \E rnd \in 0..(RandDen - 1) : AiCommit(RandomChoice(board, rnd))
     \/ /\ lastOp' = "ai"
        /\ \E difficulty \in (0..MaxLevel) \ {1}, k \in 1..MaxTicks :
             AiCommit(SearchChoice(board, difficulty, k))

\* Calls of makeMoveIfLegal through window._debug, with coordinates on and off
\* the board.
DebugFrom == {<<6, 4>>, <<3, 3>>, <<8, 4>>, <<7, -1>>}
DebugTo == {<<5, 4>>, <<-1, 4>>, <<6, 8>>}

DebugMakeMove(move) ==
  LET out == makeMoveIfLegal(Game, move)
  IN /\ out.ret = "true" => Len(moves) < MaxHist
     /\ SetGame(out.g)
     /\ lastOp' = "debug"
     /\ lastRet' = out.ret
     /\ UNCHANGED <<selectedCell, pending, probe>>

Next ==
  \/ \E cell \in ClickCells : SquareClick(cell[1], cell[2])
  \/ UndoClick
  \/ RestartClick
  \/ AiMoveFire
  \/ \E f \in DebugFrom, t \in DebugTo : DebugMakeMove([from |-> f, to |-> t])

Spec == Init /\ [][Next]_vars

(***************************************************************************)
(* Direct calls of generateMovesForSide (SpecGen) and of minimaxRoot       *)
(* (SpecSearch), the functions window._debug and aiMove hand a board to.   *)
(* The board is made by putting pieces on a base board; the call records   *)
(* its arguments and its result in probe.                                  *)
(***************************************************************************)
EmptyBoard == [r \in Rows |-> [c \in Rows |-> "."]]

GenSquares == {<<3, 3>>, <<3, 6>>, <<6, 3>>, <<5, 3>>, <<5, 5>>, <<1, 1>>, <<0, 0>>}

SearchSquares == {<<2, 3>>, <<3, 2>>, <<3, 4>>, <<4, 4>>}
SearchPieces == {"P", "p", "N", "n"}

GamePart ==
  /\ board = initialBoard
  /\ moves = <<>>
  /\ moveList = <<>>
  /\ sideToMove = "w"
  /\ selectedCell = <<>>
  /\ pending = 0
  /\ lastOp = "init"
  /\ lastRet = "none"

GameUnchanged ==
  UNCHANGED <<board, moves, moveList, sideToMove, selectedCell, pending, lastOp, lastRet>>

GenInit ==
  /\ GamePart
  /\ \E base \in {EmptyBoard, initialBoard} :
       probe = [kind |-> "gen", board |-> base, placed |-> 0, ran |-> FALSE,
                side |-> "w", result |-> <<>>]

GenPlace(cell, p) ==
  /\ ~probe.ran
  /\ probe.placed < MaxGenPieces
  /\ probe' = [probe EXCEPT !.board[cell[1]][cell[2]] = p, !.placed = @ + 1]
  /\ GameUnchanged

GenCall(side) ==
  /\ ~probe.ran
  /\ probe' = [probe EXCEPT !.ran = TRUE, !.side = side,
                            !.result = generateMovesForSide(probe.board, side)]
  /\ GameUnchanged

GenNext ==
  \/ \E cell \in GenSquares, p \in Pieces : GenPlace(cell, p)
  \/ \E side \in {"w", "b"} : GenCall(side)

SpecGen == GenInit /\ [][GenNext]_vars

SearchInit ==
  /\ GamePart
  /\ probe = [kind |-> "search", board |-> EmptyBoard, placed |-> 0, ran |-> FALSE,
              side |-> "w", depth |-> 0, k |-> 0, move |-> <<>>, after |-> EmptyBoard,
              fresh |-> TRUE, t |-> 0, cuts |-> 0, sorted |-> TRUE, lastMake |-> 0,
              rootKids |-> 0, lo |-> 0, hi |-> 0]

SearchPlace(cell, p) ==
  /\ ~probe.ran
  /\ probe.placed < MaxSearchPieces
  /\ probe.board[cell[1]][cell[2]] = "."
  /\ probe' = [probe EXCEPT !.board[cell[1]][cell[2]] = p, !.placed = @ + 1]
  /\ GameUnchanged

\* What the call leaves: the move returned, the board passed in as it is
\* afterwards, and the search state's counters and flags.
Searched(pr, side, depth, k, res) ==
  [pr EXCEPT !.ran = TRUE, !.side = side, !.depth = depth, !.k = k,
             !.move = res.move, !.after = Deref(res.s.heap, LiveRef),
             !.fresh = res.s.fresh, !.t = res.s.t, !.cuts = res.s.cuts,
             !.sorted = res.s.sorted, !.lastMake = res.s.lastMake,
             !.rootKids = res.s.rootKids, !.lo = res.s.lo, !.hi = res.s.hi]

SearchCall(side, depth, k) ==
  /\ ~probe.ran
  /\ probe' = Searched(probe, side, depth, k,
                       minimaxRoot(LiveHeap(probe.board), LiveRef, depth, side, k))
  /\ GameUnchanged

SearchNext ==
  \/ \E cell \in SearchSquares, p \in SearchPieces : SearchPlace(cell, p)
  \/ \E side \in {"w", "b"}, depth \in 1..MaxDepth, k \in 0..MaxClock :
       SearchCall(side, depth, k)

SpecSearch == SearchInit /\ [][SearchNext]_vars

(***************************************************************************)
(* The chess.js-backed front end (specification SpecFront).  The chess.js  *)
(* game is kept as its history: one entry per move made, with the colour   *)
(* of the piece moved (chess.js moves only pieces of the side to move),    *)
(* who made it, and whether it ended the game (mate or stalemate).  probe  *)
(* holds game, the number of makeBestMove callbacks set by                 *)
(* window.setTimeout and not yet run, and the handler that ran last.       *)
(***************************************************************************)
\* game.turn(): White moves first and the sides alternate.
turn(h) == IF Len(h) % 2 = 0 THEN "w" ELSE "b"

\* game.game_over(); game.moves() is empty exactly then.
game_over(h) == Len(h) > 0 /\ h[Len(h)].mate

\* A game can end no sooner than with its fourth move.
CanEnd(h) == Len(h) >= 3

\* game.move(m) for a legal move m made by `by`.
gameMove(h, by, mate) ==
  Append(h, [color |-> turn(h), by |-> by, mate |-> mate /\ CanEnd(h)])

\* game.undo(): nothing to take back on an empty history.
gameUndo(h) == IF Len(h) = 0 THEN h ELSE SubSeq(h, 1, Len(h) - 1)

FrontInit ==
  /\ GamePart
  /\ probe = [kind |-> "front", game |-> <<>>, timers |-> 0, lastOp |-> "init"]

\* onDragStart lets the user pick up a White piece while the game is not
\* over; onDrop then asks game.move, which refuses an illegal move and any
\* move when it is not White's turn ('snapback'), and otherwise sets a
\* makeBestMove callback.
onDrop(legal, mate) ==
  /\ ~game_over(probe.game)
  /\ IF legal /\ turn(probe.game) = "w"
     THEN /\ Len(probe.game) < MaxPlies
          /\ probe.timers < MaxTimers
          /\ probe' = [probe EXCEPT !.game = gameMove(@, "user", mate),
                                    !.timers = @ + 1, !.lastOp = "onDrop"]
     ELSE probe' = [probe EXCEPT !.lastOp = "snapback"]
  /\ GameUnchanged

\* A makeBestMove callback runs: getBestMove picks one of game.moves(), the
\* moves of the side to move; with no move (game over) it picks undefined and
\* game.move makes no move.
makeBestMove(mate) ==
  /\ probe.timers > 0
  /\ IF game_over(probe.game)
     THEN probe' = [probe EXCEPT !.timers = @ - 1, !.lastOp = "makeBestMove"]
     ELSE /\ Len(probe.game) < MaxPlies
          /\ probe' = [probe EXCEPT !.game = gameMove(@, "ai", mate),
                                    !.timers = @ - 1, !.lastOp = "makeBestMove"]
  /\ GameUnchanged

\* undoMove: two game.undo() calls.
undoMove ==
  /\ probe' = [probe EXCEPT !.game = gameUndo(gameUndo(@)), !.lastOp = "undoMove"]
  /\ GameUnchanged

\* restartGame: game.reset(); the callbacks set by setTimeout stay.
restartGame ==
  /\ probe' = [probe EXCEPT !.game = <<>>, !.lastOp = "restartGame"]
  /\ GameUnchanged

FrontNext ==
  \/ \E legal \in BOOLEAN, mate \in BOOLEAN : onDrop(legal, mate)
  \/ \E mate \in BOOLEAN : makeBestMove(mate)
  \/ undoMove
  \/ restartGame

SpecFront == FrontInit /\ [][FrontNext]_vars

(***************************************************************************)
(* Properties of the game (specification Spec).                            *)
(***************************************************************************)
GameAfter ==
  [board |-> board', moves |-> moves', moveList |-> moveList', sideToMove |-> sideToMove']

IsWhite(p) == p \in WhitePieces
IsBlack(p) == p \in BlackPieces

\* C1: round trip.  Whenever a step commits a move (makeMoveIfLegal returned
\* true), the undo handler applied to the resulting game gives back the game
\* before the move: the board cell for cell, sideToMove, moves and moveList.
C1_UndoRestoresCommit ==
  [][lastRet' = "true" => undoHandler(GameAfter) = Game]_vars

\* Undo has been pressed right after a committed move, and moves are left.
C1_Witness == lastOp = "undoAfterCommit" /\ Len(moves) > 0

\* C2: side alternation.  No two consecutive entries of the move history
\* were made by pieces of the same colour.
C2_SidesAlternate ==
  \A i \in 1..(Len(moves) - 1) : IsWhite(moves[i].piece) # IsWhite(moves[i + 1].piece)

\* A White move answered by aiMove with a Black move.
C2_Witness ==
  /\ Len(moves) >= 2
  /\ lastOp = "ai"
  /\ lastRet = "true"
  /\ IsWhite(moves[Len(moves) - 1].piece)
  /\ IsBlack(moves[Len(moves)].piece)

At(bs, cell) == bs[cell[1]][cell[2]]

InSeq(x, seq) == \E i \in 1..Len(seq) : seq[i] = x

LastMove(ms) == [from |-> ms[Len(ms)].from, to |-> ms[Len(ms)].to]

\* C3: every move makeMoveIfLegal commits is one of
\* generateMovesForSide(board, sideToMove) on the board before the move; so a
\* pawn's two-step is committed only over an empty cell, and a capture only
\* when the generator lists it.
C3_CommitIsGenerated ==
  [][lastRet' = "true" =>
       InSeq(LastMove(moves'), generateMovesForSide(board, sideToMove))]_vars

\* C4: makeMoveIfLegal is total and failure-atomic.  No call raises a fault,
\* whatever the coordinates of the request, and a call that returns false
\* leaves board, moves, moveList and sideToMove as they were.
C4_TotalAndAtomic ==
  [][lastRet' # "fault" /\ (lastRet' = "false" => GameAfter = Game)]_vars

\* C5: undo with an empty move history leaves board, sideToMove, moves and
\* moveList as they were.
C5_UndoOfEmptyIsNoOp ==
  [][lastOp' = "undoEmpty" => GameAfter = Game]_vars

\* Undo has been pressed on an empty history, here after a restart.
C5_Witness == lastOp = "undoEmpty" /\ Len(moves) = 0 /\ sideToMove = "w"

MaterialValue(p) ==
  CASE p \in {"p", "P"} -> 100 [] p \in {"n", "N"} -> 320 [] p \in {"b", "B"} -> 330
    [] p \in {"r", "R"} -> 500 [] p \in {"q", "Q"} -> 900 [] p \in {"k", "K"} -> 20000
    [] OTHER -> 0

\* The signed value of what a history entry captured: plus for a Black piece,
\* minus for a White piece, nothing for no capture.
CapturedValue(e) ==
  IF IsBlack(e.captured) THEN MaterialValue(e.captured)
  ELSE IF IsWhite(e.captured) THEN -MaterialValue(e.captured)
  ELSE 0

RECURSIVE HistoryMaterial(_, _)
HistoryMaterial(ms, i) ==
  IF i > Len(ms) THEN 0 ELSE CapturedValue(ms[i]) + HistoryMaterial(ms, i + 1)

\* C11: material bookkeeping.  In every reachable state the evaluation of the
\* live board equals the sum over the history of the signed values of the
\* captured pieces; so it is 0 at the start and after moves without capture.
C11_MaterialBookkeeping ==
  evaluateBoardSimple(board) = HistoryMaterial(moves, 1)

\* Black has taken a White pawn and the evaluation is below zero.
C11_Witness ==
  /\ \E i \in 1..Len(moves) : IsWhite(moves[i].captured)
  /\ evaluateBoardSimple(board) = -100

\* C13: level-1 legality.  Whenever aiMove runs its beginner branch on a
\* board where Black has a generated move, it selects a move whatever the
\* random source returns, the move is one of generateMovesForSide(board, 'b')
\* on the live board, and the move it commits is one of them.
C13_BeginnerPicksGenerated ==
  [][(lastOp' = "aiRandom" /\ Len(generateMovesForSide(board, "b")) > 0) =>
       /\ lastRet' # "none"
       /\ \A rnd \in 0..(RandDen - 1) :
            /\ RandomChoice(board, rnd).move # <<>>
            /\ InSeq(RandomChoice(board, rnd).move[1], generateMovesForSide(board, "b"))
       /\ lastRet' = "true" =>
            InSeq(LastMove(moves'), generateMovesForSide(board, "b"))]_vars

\* The beginner branch has answered a White move with a Black move.
C13_Witness ==
  /\ lastOp = "aiRandom"
  /\ lastRet = "true"
  /\ Len(moves) >= 2
  /\ IsBlack(moves[Len(moves)].piece)

\* C14: the live board never holds more than 32 pieces.
C14_AtMost32Occupied ==
  Cardinality({cell \in Rows \X Rows : At(board, cell) # "."}) <= 32

\* A capture has been made (31 pieces are left) and recorded.
C14_Witness ==
  /\ Cardinality({cell \in Rows \X Rows : At(board, cell) # "."}) = 31
  /\ \E i \in 1..Len(moves) : moves[i].captured # "."

\* C18: turn and history parity.  sideToMove is 'w' exactly when the history
\* has an even number of entries, the entries at even positions (counted from
\* 0) are moves of White pieces and those at odd positions of Black pieces,
\* and moveList is as long as moves.
C18_TurnHistoryParity ==
  /\ (sideToMove = "w") = (Len(moves) % 2 = 0)
  /\ \A i \in 1..Len(moves) :
       IF (i - 1) % 2 = 0 THEN IsWhite(moves[i].piece) ELSE IsBlack(moves[i].piece)
  /\ Len(moveList) = Len(moves)

\* Black is to move again after an undo of its answer: three entries were
\* made, one was taken back.
C18_Witness ==
  /\ lastOp \in {"undo", "undoAfterCommit"}
  /\ Len(moves) = 1
  /\ sideToMove = "b"

\* C19: every move generated for the side to move is committable:
\* makeMoveIfLegal returns true for it on the live game.
C19_GeneratedIsCommittable ==
  \A i \in 1..Len(generateMovesForSide(board, sideToMove)) :
    makeMoveIfLegal(Game, generateMovesForSide(board, sideToMove)[i]).ret = "true"

\* C20: stale callbacks are harmless.  An aiMove that runs while it is not
\* Black's turn leaves board, moves, moveList and sideToMove as they were and
\* sets no new callback; a move aiMove commits is a move of a Black piece made
\* on Black's turn, after which it is White's turn.
C20_StaleTimersHarmless ==
  [][lastOp' \in {"ai", "aiRandom"} =>
       /\ sideToMove # "b" => (GameAfter = Game /\ pending' = pending - 1)
       /\ lastRet' = "true" =>
            /\ sideToMove = "b"
            /\ sideToMove' = "w"
            /\ IsBlack(moves'[Len(moves')].piece)
            /\ pending' = pending - 1]_vars

\* Two callbacks were pending on White's turn and one of them has run.
C20_Witness ==
  /\ lastOp \in {"ai", "aiRandom"}
  /\ lastRet = "false"
  /\ sideToMove = "w"
  /\ pending = 1

\* C21: the AI always answers Black's turn.  Whenever Black is to move and
\* has a generated move, an aiMove callback is pending: with no further user
\* action it is the only step that can commit Black's move and return the
\* turn to White.
C21_BlackTurnIsAnswered ==
  (sideToMove = "b" /\ Len(generateMovesForSide(board, "b")) > 0) => pending > 0

(***************************************************************************)
(* Properties of generateMovesForSide (specification SpecGen).             *)
(***************************************************************************)
OnBoard(cell) == inRange(cell[1]) /\ inRange(cell[2])

OwnedBy(p, side) == IF side = "w" THEN IsWhite(p) ELSE IsBlack(p)

\* C6: containment.  Every move the generator returns has both coordinates on
\* the board, its origin on a piece of the side asked for, and its
\* destination on an empty cell or on a piece of the other colour.
C6_Containment ==
  probe.ran =>
    \A i \in 1..Len(probe.result) :
      /\ OnBoard(probe.result[i].from)
      /\ OnBoard(probe.result[i].to)
      /\ OwnedBy(At(probe.board, probe.result[i].from), probe.side)
      /\ ~OwnedBy(At(probe.board, probe.result[i].to), probe.side)

SliderDeltas(p) ==
  CASE toLowerCase(p) = "b" -> BishopDeltas
    [] toLowerCase(p) = "r" -> RookDeltas
    [] toLowerCase(p) = "q" -> QueenDeltas
    [] OTHER -> <<>>

RayCell(r, c, d, n) == <<r + n * d[1], c + n * d[2]>>

\* The distances along direction d a slider of the given side on (r, c)
\* reaches: every cell before is empty, the cell itself is empty or holds a
\* piece of the other colour.
ExactRay(bs, side, r, c, d) ==
  {n \in 1..(BoardSize - 1) :
     /\ OnBoard(RayCell(r, c, d, n))
     /\ \A j \in 1..(n - 1) : At(bs, RayCell(r, c, d, j)) = "."
     /\ ~OwnedBy(At(bs, RayCell(r, c, d, n)), side)}

\* The distances along d of the moves generated from (r, c).
GeneratedRay(result, r, c, d) ==
  {n \in 1..(BoardSize - 1) :
     InSeq([from |-> <<r, c>>, to |-> RayCell(r, c, d, n)], result)}

\* C7: sliding rays are exact.  For every bishop, rook or queen of the side
\* asked for and each of its directions, the destinations generated along the
\* direction are the cells up to the first occupied one, that cell included
\* when it holds a piece of the other colour and excluded when it holds an
\* own piece.
C7_SlidingRaysExact ==
  probe.ran =>
    \A r \in Rows, c \in Rows :
      OwnedBy(probe.board[r][c], probe.side) =>
        \A i \in 1..Len(SliderDeltas(probe.board[r][c])) :
          GeneratedRay(probe.result, r, c, SliderDeltas(probe.board[r][c])[i])
            = ExactRay(probe.board, probe.side, r, c, SliderDeltas(probe.board[r][c])[i])

\* The moves of the list made by piece letter p over dr rows (any columns).
MovesBy(bs, result, p, dr) ==
  {i \in 1..Len(result) :
     /\ At(bs, result[i].from) = p
     /\ Abs(result[i].to[1] - result[i].from[1]) = dr}

\* C12: from the standard starting position the generator returns for White
\* exactly 20 moves: 8 pawn single steps, 8 pawn double steps, 4 knight moves.
C12_TwentyMovesFromStart ==
  (probe.ran /\ probe.board = initialBoard /\ probe.side = "w") =>
    /\ Len(probe.result) = 20
    /\ Cardinality(MovesBy(initialBoard, probe.result, "P", 1)) = 8
    /\ Cardinality(MovesBy(initialBoard, probe.result, "P", 2)) = 8
    /\ Cardinality(MovesBy(initialBoard, probe.result, "N", 2)) = 4

(***************************************************************************)
(* Properties of minimaxRoot (specification SpecSearch).                   *)
(***************************************************************************)
\* A move made on a board value.
ApplyMove(bs, mv) ==
  [bs EXCEPT ![mv.to[1]][mv.to[2]] = bs[mv.from[1]][mv.from[2]],
             ![mv.from[1]][mv.from[2]] = "."]

SetMax(S) == CHOOSE x \in S : \A y \in S : y <= x
SetMin(S) == CHOOSE x \in S : \A y \in S : x <= y

\* The search without the break and without a clock: the value of a position
\* is the maximum (White) or minimum (Black) over all its moves.
RECURSIVE PlainMinimax(_, _, _)
PlainOver(bs, depth, side, ms) ==
  IF Len(ms) = 0 THEN evaluateBoardSimple(bs)
  ELSE IF side = "w"
       THEN SetMax({PlainMinimax(ApplyMove(bs, ms[i]), depth - 1, "b") : i \in 1..Len(ms)})
       ELSE SetMin({PlainMinimax(ApplyMove(bs, ms[i]), depth - 1, "w") : i \in 1..Len(ms)})

PlainMinimax(bs, depth, side) ==
  IF depth = 0 THEN evaluateBoardSimple(bs)
  ELSE PlainOver(bs, depth, side, generateMovesForSide(bs, side))

BestOf(side, scores) ==
  IF side = "w" THEN SetMax({scores[i] : i \in 1..Len(scores)})
  ELSE SetMin({scores[i] : i \in 1..Len(scores)})

\* The first move with the best score: a later move replaces the best one
\* only when strictly better.
FirstAt(scores, best) ==
  CHOOSE i \in 1..Len(scores) : scores[i] = best /\ \A j \in 1..(i - 1) : scores[j] # best

PlainPick(side, ms, scores) ==
  IF Len(ms) = 0 THEN <<>> ELSE <<ms[FirstAt(scores, BestOf(side, scores))]>>

PlainScores(bs, depth, side, ms) ==
  PlainPick(side, ms,
            [i \in 1..Len(ms) |-> PlainMinimax(ApplyMove(bs, ms[i]), depth - 1, Other(side))])

PlainRoot(bs, depth, side) ==
  PlainScores(bs, depth, side, SortCapturesFirst(bs, generateMovesForSide(bs, side)))

\* C8: pruning equivalence.  When no clock reading is over budget, the move
\* minimaxRoot returns at depth 1..MaxDepth is the move the same search
\* returns without the beta <= alpha break.
C8_PruningEquivalence ==
  (probe.ran /\ probe.k = 0) => probe.move = PlainRoot(probe.board, probe.depth, probe.side)

\* A depth-3 search that took the break and returned a move.
C8_Witness ==
  /\ probe.ran
  /\ probe.k = 0
  /\ probe.depth = MaxDepth
  /\ probe.cuts > 0
  /\ probe.move # <<>>

\* C9: minimaxRoot returns null exactly when the generator returns no move,
\* and otherwise one of the generated moves, whichever clock reading is the
\* first over budget.
C9_NullIffNoMoves ==
  probe.ran =>
    /\ (probe.move = <<>>) = (Len(generateMovesForSide(probe.board, probe.side)) = 0)
    /\ probe.move # <<>> =>
         InSeq(probe.move[1], generateMovesForSide(probe.board, probe.side))

\* The budget is exceeded at the first reading, inside the first root child,
\* and a move is returned all the same.
C9_Witness ==
  /\ probe.ran
  /\ probe.k = 1
  /\ probe.depth > 1
  /\ probe.move # <<>>

\* C10: the search has no effect outside itself.  After minimaxRoot the board
\* passed in holds what it held, the live game is as it was, and every board
\* the search made shared no row with its parent.
C10_SearchLeavesBoards ==
  probe.ran =>
    /\ probe.after = probe.board
    /\ probe.fresh
    /\ GamePart

\* A full depth-3 search over several positions that returned a move.
C10_Witness ==
  /\ probe.ran
  /\ probe.depth = MaxDepth
  /\ probe.k = 0
  /\ probe.t > MaxDepth
  /\ probe.move # <<>>
  /\ probe.after = probe.board

\* C15: capture-first ordering at every node.  At the root and at every
\* internal node the moves are looped over with every move onto an occupied
\* cell before every move onto an empty cell.
C15_CapturesFirstEverywhere == probe.ran => probe.sorted

\* The moves minimaxRoot loops over.
RootMoves(bs, side) == SortCapturesFirst(bs, generateMovesForSide(bs, side))

\* The budget was found exceeded during the call.
DeadlineHit == probe.ran /\ probe.k > 0 /\ probe.t >= probe.k

\* C16: deadline cutoff.  Once a clock reading has exceeded the budget, no
\* makeMoveOnBoard call follows at the root or at any node, every active
\* frame returns after at most one more reading, and minimaxRoot returns the
\* best move recorded among the root children evaluated so far.
C16_DeadlineCutoff ==
  DeadlineHit =>
    /\ probe.lastMake < probe.k
    /\ probe.t <= probe.k + probe.depth
    /\ probe.rootKids >= 1
    /\ probe.move # <<>>
    /\ InSeq(probe.move[1],
             SubSeq(RootMoves(probe.board, probe.side), 1, probe.rootKids))

\* A depth-3 search cut short by the deadline: root moves were left
\* unevaluated and a move was returned.
C16_Witness ==
  /\ DeadlineHit
  /\ probe.depth = MaxDepth
  /\ probe.k > 1
  /\ probe.rootKids < Len(RootMoves(probe.board, probe.side))
  /\ probe.move # <<>>

\* C17: depth-bounded termination.  The depth aiMove asks for is 1..5 (2 for
\* an unknown level); every minimax call of a search has a depth argument
\* between 0 and depth - 1, so a call with depth 0 makes no further call; and
\* the search ends when the deadline is never reached.
C17_DepthBounded ==
  /\ \A level \in 0..(MaxLevel + 5) : DepthOf(level) \in 1..5
  /\ (probe.ran /\ probe.t > 0) =>
       /\ probe.lo >= 0
       /\ probe.hi = probe.depth - 1
       /\ probe.lo <= probe.hi

\* A full depth-3 search without deadline that went down to depth 0.
C17_Witness ==
  /\ probe.ran
  /\ probe.k = 0
  /\ probe.depth = MaxDepth
  /\ probe.lo = 0
  /\ probe.hi = MaxDepth - 1
  /\ probe.t > MaxDepth

(***************************************************************************)
(* Properties of the chess.js-backed front end (specification SpecFront).  *)
(***************************************************************************)
\* C22: the automated opponent only plays Black.  Every makeBestMove runs
\* when it is Black's turn and the game has a move, and no move made by
\* makeBestMove is a move of a White piece.
C22_OpponentOnlyPlaysBlack ==
  [][probe'.lastOp = "makeBestMove" =>
       /\ turn(probe.game) = "b"
       /\ ~game_over(probe.game)
       /\ \A i \in 1..Len(probe'.game) :
            probe'.game[i].by = "ai" => probe'.game[i].color = "b"]_vars

====
